---- MODULE Spec2Model ----
(***************************************************************************)
(* Model of src/bildBackup.py: the BildAPIClient of the Bild PDM backup    *)
(* tool.  One client object lives at a time; its public methods            *)
(* backup_all_projects and download_file are called one after the other    *)
(* (the program is single-threaded) and each runs as a sequence of steps,  *)
(* one per blocking call, so that a failure or a user abort can be placed  *)
(* at every point where the program can observe one.                       *)
(***************************************************************************)
EXTENDS Integers, Sequences, FiniteSets, TLC

VARIABLES
    pc,          \* where the running call stands; "idle" between calls
    stats,       \* self.stats
    disk,        \* the files below the backup directory
    dirs,        \* the directories below the backup directory
    dl,          \* the locals of download_file
    summary,     \* backup_summary of backup_all_projects
    projects,    \* the listing backup_all_projects works on
    idx,         \* the loop index i of backup_all_projects
    cur,         \* the locals of one turn of that loop
    result,      \* how the last call ended, once it has
    calls,       \* calls made so far, on this client and the ones before
    made,        \* calls made on this client
    log,         \* history: requests, failures and pauses of the running call
    interrupted, \* history: paths whose download a user abort has cut short
    arg,         \* the argument of a helper that is called on its own
    ret          \* what that helper returned

vars == <<pc, stats, disk, dirs, dl, summary, projects, idx, cur, result,
          calls, made, log, interrupted, arg, ret>>

(***************************************************************************)
(* Bounds of the model.                                                    *)
(***************************************************************************)
\* calls of download_file and backup_all_projects over the life of the
\* backup directory
MaxCalls == 4
\* length of a project listing returned by the API
MaxProjects == 2

(***************************************************************************)
(* Names, paths and the remote content.  A name is a sequence of           *)
(* one-character strings, a path a sequence of names below the backup      *)
(* directory, a file's content a sequence of bytes.                        *)
(***************************************************************************)
NameA == <<"A">>
NameB == <<"B">>
NameSub == <<"s">>

PathA == <<NameA, <<"a">>>>
PathB == <<NameA, <<"b">>>>
PathC == <<NameA, NameSub, <<"c">>>>
PathE == <<NameA, <<"e">>>>

\* the destinations download_file is called with
DestPaths == {PathA, PathB, PathC, PathE}

\* the body served for a destination's download URL, as the chunks that
\* iter_content yields (an empty chunk is a keep-alive chunk)
RemoteChunks(p) ==
    IF p = PathA THEN << <<1, 2>>, <<3>> >>
    ELSE IF p = PathB THEN << <<>>, <<4>> >>
    ELSE IF p = PathC THEN << <<5>> >>
    ELSE << >>

RECURSIVE Concat(_)
Concat(chunks) ==
    IF chunks = << >> THEN << >> ELSE Head(chunks) \o Concat(Tail(chunks))

\* the complete content of the remote file
RemoteContent(p) == Concat(RemoteChunks(p))

NoFile == [exists |-> FALSE, data |-> << >>]

\* the directories above a path, the path itself excluded
Parents(p) == {SubSeq(p, 1, n) : n \in 1..(Len(p) - 1)}

\* Path.mkdir(parents=True, exist_ok=True)
Mkdir(d) == dirs \cup Parents(d) \cup {d}

\* Path.exists() and Path.stat().st_size > 0
ExistsNonEmpty(p) == disk[p].exists /\ Len(disk[p].data) > 0

(***************************************************************************)
(* BildAPIClient.sanitize_filename                                         *)
(***************************************************************************)
MaxNameLen == 255

IllegalChars == {"<", ">", ":", "\"", "/", "\\", "|", "?", "*"}

StripChars == {".", " "}

MinOf(S) == CHOOSE x \in S : \A y \in S : x <= y
MaxOf(S) == CHOOSE x \in S : \A y \in S : y <= x

\* a character class that misses the asterisk
ReSub_KeepsStar(s) ==
    [i \in 1..Len(s) |-> IF s[i] \in IllegalChars \ {"*"} THEN "_" ELSE s[i]]

\* re.sub(r'[<>:"/\\|?*]', '_', filename)
ReSub(s) == [i \in 1..Len(s) |-> IF s[i] \in IllegalChars THEN "_" ELSE s[i]]

\* str.strip('. '): dots and spaces are removed at both ends
Strip(s) ==
    LET keep == {i \in 1..Len(s) : s[i] \notin StripChars} IN
    IF keep = {} THEN << >> ELSE SubSeq(s, MinOf(keep), MaxOf(keep))

\* s[:n] of Python, n possibly negative
SliceTo(s, n) ==
    IF n >= 0
    THEN SubSeq(s, 1, IF n < Len(s) THEN n ELSE Len(s))
    ELSE SubSeq(s, 1, IF Len(s) + n > 0 THEN Len(s) + n ELSE 0)

\* str.rfind, 1-based, 0 when the character is absent
RFind(s, c) ==
    LET at == {i \in 1..Len(s) : s[i] = c} IN
    IF at = {} THEN 0 ELSE MaxOf(at)

\* os.path.splitext: the extension starts at the last dot of the last
\* path component, unless only dots precede it there
SplitExt(s) ==
    LET sepIndex == RFind(s, "/")
        dotIndex == RFind(s, ".")
    IN IF /\ dotIndex > sepIndex
          /\ \E i \in (sepIndex + 1)..(dotIndex - 1) : s[i] # "."
       THEN <<SubSeq(s, 1, dotIndex - 1), SubSeq(s, dotIndex, Len(s))>>
       ELSE <<s, << >>>>

UnnamedFile == <<"u", "n", "n", "a", "m", "e", "d", "_", "f", "i", "l", "e">>

sanitize_filename(filename) ==
    LET stripped == Strip(ReSub(filename))
        sanitized ==
            IF Len(stripped) > MaxNameLen
            THEN LET parts == SplitExt(stripped) IN
                 SliceTo(parts[1], MaxNameLen - Len(parts[2])) \o parts[2]
            ELSE stripped
    IN IF sanitized # << >> THEN sanitized ELSE UnnamedFile

(***************************************************************************)
(* The remote API: what the listing endpoints can answer.                  *)
(***************************************************************************)
File(id, name) == [type |-> "file", id |-> id, name |-> name]

Folder(name, children) == [type |-> "folder", name |-> name, children |-> children]

\* a project with three files, one of them in a subfolder
TreeAlpha == << File("fa", <<"a">>), File("fb", <<"b">>),
                Folder(NameSub, << File("fc", <<"c">>) >>) >>

Project(id, name, branch) ==
    [kind |-> "dict", id |-> id, name |-> name, branch |-> branch]

ProjAlpha == Project("p1", NameA, "b1")
ProjBeta == Project("p2", NameB, "b2")
\* a project object without an id
ProjNoId == Project("", <<"C">>, "")
\* a list element that is not an object
NotAnObject == [kind |-> "str", id |-> "", name |-> << >>, branch |-> ""]

\* another project, whose name differs from that of ProjAlpha by a final dot
ProjTwin == Project("p3", <<"A", ".">>, "b3")

ProjectPool == {ProjAlpha, ProjBeta, ProjNoId, NotAnObject}

\* a listing of two projects with distinct ids and names that differ
TwinListing == <<ProjAlpha, ProjTwin>>

Listings == UNION {[1..n -> ProjectPool] : n \in 0..MaxProjects}
            \cup {TwinListing}

\* the body of GET /projects/{id}/files
FilesOf(id) == IF id = "p1" THEN TreeAlpha ELSE << >>

\* the projects and files of the end-to-end scenario
ReferenceListing == <<ProjAlpha, ProjBeta>>
ReferencePaths == {PathA, PathB, PathC}

(***************************************************************************)
(* BildAPIClient.__init__                                                  *)
(***************************************************************************)
InitStats ==
    [projects_processed |-> 0, files_found |-> 0, files_downloaded |-> 0,
     files_skipped |-> 0, download_errors |-> 0, total_bytes_downloaded |-> 0]

\* again is history: what the call before this one left at the same
\* destination if it returned True ("empty" or "content"), else "no"
NoDl == [path |-> << >>, remaining |-> << >>, total_size |-> 0, again |-> "no"]

\* an entry of the history of a call: a request (ok tells whether it was
\* answered), a failed step, or a pause; i is the loop index, 0 outside
Event(ev, i, ok) == [ev |-> ev, i |-> i, ok |-> ok]

\* size is the size of the file at the destination when the call ended
NoResult == [op |-> "none", outcome |-> "none", path |-> << >>, size |-> 0]

\* the dict {}
EmptyDict == [k \in {} |-> 0]

\* backup_summary as built at lines 286-291
NoSummary == [projects |-> << >>, statistics |-> EmptyDict]

NoInfo == [id |-> "", name |-> << >>, branch_id |-> "", files |-> << >>,
           status |-> "skipped"]

NoCur == [info |-> NoInfo, project_dir |-> << >>, project_files |-> << >>]

Init ==
    /\ pc = "idle"
    /\ stats = InitStats
    /\ disk = [p \in DestPaths |-> NoFile]
    /\ dirs = {<< >>}
    /\ dl = NoDl
    /\ result = NoResult
    /\ calls = 0
    /\ made = 0
    /\ summary = NoSummary
    /\ projects = << >>
    /\ idx = 0
    /\ cur = NoCur
    /\ log = << >>
    /\ interrupted = {}
    /\ arg = << >>
    /\ ret = << >>

Helper == <<arg, ret>>

\* a later run of the program: a new client over the same backup directory
NewClient ==
    /\ \/ pc \in {"interrupted", "raised"}
       \/ pc = "idle" /\ result.op # "none"
    /\ pc' = "idle"
    /\ stats' = InitStats
    /\ dirs' = dirs \cup {<< >>}
    /\ dl' = NoDl
    /\ result' = NoResult
    /\ summary' = NoSummary
    /\ projects' = << >>
    /\ idx' = 0
    /\ cur' = NoCur
    /\ log' = << >>
    /\ made' = 0
    /\ UNCHANGED <<disk, calls, interrupted, Helper>>

BackupVars == <<summary, projects, idx, cur>>
Client == <<calls, made, interrupted, Helper>>

(***************************************************************************)
(* BildAPIClient.download_file                                             *)
(***************************************************************************)
Bump(field) == [stats EXCEPT ![field] = @ + 1]

\* return True / return False
Return(outcome) ==
    /\ pc' = "idle"
    /\ result' = [op |-> "download_file", outcome |-> outcome, path |-> dl.path,
                  size |-> Len(disk'[dl.path].data)]

\* variant: the handler counts the file as skipped as well
DownloadRequestError_CountsTwice(ev) ==
    /\ log' = Append(log, Event(ev, 0, FALSE))
    /\ stats' = [stats EXCEPT !.download_errors = @ + 1, !.files_skipped = @ + 1]
    /\ disk' = IF disk[dl.path].exists
               THEN [disk EXCEPT ![dl.path] = NoFile]
               ELSE disk
    /\ Return("failed")

\* the handler of requests.exceptions.RequestException (lines 236-247)
DownloadRequestError(ev) ==
    /\ log' = Append(log, Event(ev, 0, FALSE))
    /\ stats' = Bump("download_errors")
    /\ disk' = IF disk[dl.path].exists
               THEN [disk EXCEPT ![dl.path] = NoFile]
               ELSE disk
    /\ Return("failed")

\* variant: the handler re-raises instead of returning False
DownloadUnexpectedError_Reraise(ev) ==
    /\ log' = Append(log, Event(ev, 0, FALSE))
    /\ stats' = stats
    /\ disk' = disk
    /\ pc' = "raised"
    /\ result' = [op |-> "download_file", outcome |-> "raised",
                  path |-> dl.path, size |-> 0]

\* the handler of Exception (lines 248-251)
DownloadUnexpectedError(ev) ==
    /\ log' = Append(log, Event(ev, 0, FALSE))
    /\ stats' = Bump("download_errors")
    /\ disk' = disk
    /\ Return("failed")

\* the call itself
DownloadFile(p) ==
    /\ pc = "idle"
    /\ calls < MaxCalls
    /\ calls' = calls + 1
    /\ made' = made + 1
    /\ pc' = "dl_mkdir"
    /\ dl' = [path |-> p, remaining |-> << >>, total_size |-> 0,
              again |-> IF /\ result.op = "download_file"
                           /\ result.path = p
                           /\ result.outcome \in {"downloaded", "skipped"}
                        THEN IF result.size > 0 THEN "content" ELSE "empty"
                        ELSE "no"]
    /\ result' = NoResult
    /\ summary' = NoSummary
    /\ projects' = << >>
    /\ idx' = 0
    /\ cur' = NoCur
    /\ log' = << >>
    /\ UNCHANGED <<stats, disk, dirs, interrupted, Helper>>

\* line 204: file_path.parent.mkdir(parents=True, exist_ok=True)
DownloadMkdir ==
    /\ pc = "dl_mkdir"
    /\ LET parent == SubSeq(dl.path, 1, Len(dl.path) - 1) IN
       \/ /\ dirs' = Mkdir(parent)
          /\ pc' = "dl_check"
          /\ UNCHANGED <<stats, disk, result, log>>
       \/ \* mkdir raises (OSError); a directory that exists is accepted
          /\ parent \notin dirs
          /\ DownloadUnexpectedError("mkdir")
          /\ UNCHANGED dirs
    /\ UNCHANGED <<dl, BackupVars, Client>>

\* variant: the skip is counted but the return is missing
DownloadCheck_FallThrough ==
    /\ pc = "dl_check"
    /\ stats' = IF ExistsNonEmpty(dl.path) THEN Bump("files_skipped") ELSE stats
    /\ pc' = "dl_request"
    /\ UNCHANGED <<disk, result, dirs, dl, log, BackupVars, Client>>

\* lines 207-210: skip a destination that exists and has content
DownloadCheck ==
    /\ pc = "dl_check"
    /\ IF ExistsNonEmpty(dl.path)
       THEN /\ stats' = Bump("files_skipped")
            /\ disk' = disk
            /\ Return("skipped")
       ELSE /\ pc' = "dl_request"
            /\ UNCHANGED <<stats, disk, result>>
    /\ UNCHANGED <<dirs, dl, log, BackupVars, Client>>

\* lines 216-217: requests.get(..., stream=True) and raise_for_status()
DownloadRequest ==
    /\ pc = "dl_request"
    /\ \/ /\ log' = Append(log, Event("download", 0, TRUE))
          /\ dl' = [dl EXCEPT !.remaining = RemoteChunks(dl.path)]
          /\ pc' = "dl_open"
          /\ UNCHANGED <<stats, disk, result>>
       \/ \* no connection, a timeout, or a status that is not 2xx
          /\ DownloadRequestError("download")
          /\ UNCHANGED dl
    /\ UNCHANGED <<dirs, BackupVars, Client>>

\* lines 220-221: open(file_path, 'wb') creates or truncates the file
DownloadOpen ==
    /\ pc = "dl_open"
    /\ \/ /\ disk' = [disk EXCEPT ![dl.path] = [exists |-> TRUE, data |-> << >>]]
          /\ pc' = "dl_stream"
          /\ UNCHANGED <<stats, result, log>>
       \/ DownloadUnexpectedError("open")
    /\ UNCHANGED <<dirs, dl, BackupVars, Client>>

\* lines 222-234: one turn of the loop over iter_content, or its end
DownloadChunk ==
    /\ pc = "dl_stream"
    /\ \/ /\ dl.remaining # << >>
          /\ LET chunk == Head(dl.remaining) IN
             \/ /\ disk' = IF chunk # << >>
                           THEN [disk EXCEPT ![dl.path].data = @ \o chunk]
                           ELSE disk
                /\ dl' = [dl EXCEPT !.remaining = Tail(@),
                                    !.total_size = @ + Len(chunk)]
                /\ UNCHANGED <<pc, stats, result, log>>
             \/ \* f.write raises (OSError): no handler removes the file
                /\ chunk # << >>
                /\ DownloadUnexpectedError("write")
                /\ UNCHANGED dl
       \/ \* the transport fails while the body is read
          /\ DownloadRequestError("stream")
          /\ UNCHANGED dl
       \/ /\ dl.remaining = << >>
          /\ stats' = [stats EXCEPT
                         !.files_downloaded = @ + 1,
                         !.total_bytes_downloaded = @ + dl.total_size]
          /\ disk' = disk
          /\ Return("downloaded")
          /\ UNCHANGED <<dl, log>>
    /\ UNCHANGED <<dirs, BackupVars, Client>>

(***************************************************************************)
(* BildAPIClient.backup_all_projects                                       *)
(***************************************************************************)
StatusCompleted == "completed"
StatusNoFiles == "no files"
StatusNoId == "error - no ID"
StatusDirFailed == "error - directory creation failed: OSError"
StatusProcessFailed ==
    "error - 'BildAPIClient' object has no attribute 'process_files_structure'"

ErrorStatuses == {StatusNoId, StatusDirFailed, StatusProcessFailed}

\* the methods the class defines (its def statements)
ClientMethods ==
    {"__init__", "get_projects", "get_project_files", "get_file_details",
     "sanitize_filename", "create_project_directory", "download_file",
     "backup_all_projects", "display_backup_summary", "save_backup_log"}

DownloadVars == <<disk, dl>>

BackupReturn(outcome) ==
    /\ pc' = "idle"
    /\ result' = [op |-> "backup_all_projects", outcome |-> outcome,
                  path |-> << >>, size |-> 0]

\* variant: continue without the append
AppendAndContinue_NoAppend(info) ==
    /\ summary' = summary
    /\ idx' = idx + 1
    /\ pc' = "bk_loop"

\* backup_summary['projects'].append(project_info), then the next project
AppendAndContinue(info) ==
    /\ summary' = [summary EXCEPT !.projects = Append(@, info)]
    /\ idx' = idx + 1
    /\ pc' = "bk_loop"

\* lines 286-295: the call and the empty summary
BackupAllProjects ==
    /\ pc = "idle"
    /\ calls < MaxCalls
    /\ calls' = calls + 1
    /\ made' = made + 1
    /\ pc' = "bk_get_projects"
    /\ summary' = NoSummary
    /\ projects' = << >>
    /\ idx' = 0
    /\ cur' = NoCur
    /\ dl' = NoDl
    /\ result' = NoResult
    /\ log' = << >>
    /\ UNCHANGED <<stats, disk, dirs, interrupted, Helper>>

\* variant: the listing is handed on although the request failed
get_projects_IgnoresFailure(ok, listing) == listing

\* get_projects (lines 68-89): the listing, or [] when the request fails
get_projects(ok, listing) == IF ok THEN listing ELSE << >>

\* lines 299-305
GetProjects ==
    /\ pc = "bk_get_projects"
    /\ \E ok \in BOOLEAN, listing \in Listings :
         /\ log' = Append(log, Event("get_projects", 0, ok))
         /\ projects' = get_projects(ok, listing)
         /\ IF projects' = << >>
            THEN /\ BackupReturn("returned")
                 /\ UNCHANGED idx
            ELSE /\ pc' = "bk_loop"
                 /\ idx' = 1
                 /\ UNCHANGED result
    /\ UNCHANGED <<stats, dirs, summary, cur, DownloadVars, Client>>

\* lines 308-329 and 374-376: the head of the loop over the projects
ProjectLoop ==
    /\ pc = "bk_loop"
    /\ IF idx > Len(projects)
       THEN /\ summary' = [summary EXCEPT !.statistics = stats]
            /\ BackupReturn("returned")
            /\ UNCHANGED <<idx, cur>>
       ELSE LET project == projects[idx]
                info == [id |-> project.id, name |-> project.name,
                         branch_id |-> project.branch, files |-> << >>,
                         status |-> "skipped"]
            IN IF project.kind # "dict"
               THEN \* project.get raises AttributeError, which nothing catches
                    /\ pc' = "raised"
                    /\ result' = [op |-> "backup_all_projects",
                                  outcome |-> "raised", path |-> << >>,
                                  size |-> 0]
                    /\ UNCHANGED <<summary, idx, cur>>
               ELSE IF project.id = ""
               THEN /\ AppendAndContinue([info EXCEPT !.status = StatusNoId])
                    /\ cur' = [NoCur EXCEPT !.info = info]
                    /\ UNCHANGED result
               ELSE /\ pc' = "bk_mkdir"
                    /\ cur' = [NoCur EXCEPT !.info = info]
                    /\ UNCHANGED <<summary, idx, result>>
    /\ UNCHANGED <<stats, dirs, projects, log, DownloadVars, Client>>

\* create_project_directory (lines 185-188): the directory it makes
create_project_directory(project_name) == <<sanitize_filename(project_name)>>

\* lines 332-339
CreateProjectDirectory ==
    /\ pc = "bk_mkdir"
    /\ LET project_dir == create_project_directory(cur.info.name) IN
       \/ /\ dirs' = Mkdir(project_dir)
          /\ cur' = [cur EXCEPT !.project_dir = project_dir]
          /\ pc' = "bk_get_files"
          /\ UNCHANGED <<summary, idx, log>>
       \/ \* mkdir raises (OSError); a directory that exists is accepted
          /\ project_dir \notin dirs
          /\ log' = Append(log, Event("mkdir", idx, FALSE))
          /\ AppendAndContinue([cur.info EXCEPT !.status = StatusDirFailed])
          /\ UNCHANGED <<dirs, cur>>
    /\ UNCHANGED <<stats, projects, result, DownloadVars, Client>>

\* get_project_files (lines 101-121): the files, or [] when the request fails
get_project_files(ok, project_id) == IF ok THEN FilesOf(project_id) ELSE << >>

\* variant: the test for an empty listing is missing
GetProjectFiles_NoEmptyCheck ==
    /\ pc = "bk_get_files"
    /\ \E ok \in BOOLEAN :
         /\ log' = Append(log, Event("get_files", idx, ok))
         /\ cur' = [cur EXCEPT !.project_files =
                                 get_project_files(ok, cur.info.id)]
         /\ pc' = "bk_process"
         /\ UNCHANGED <<summary, idx>>
    /\ UNCHANGED <<stats, dirs, projects, result, DownloadVars, Client>>

\* lines 342-348
GetProjectFiles ==
    /\ pc = "bk_get_files"
    /\ \E ok \in BOOLEAN :
         LET project_files == get_project_files(ok, cur.info.id) IN
         /\ log' = Append(log, Event("get_files", idx, ok))
         /\ IF project_files = << >>
            THEN /\ AppendAndContinue([cur.info EXCEPT !.status = StatusNoFiles])
                 /\ UNCHANGED cur
            ELSE /\ cur' = [cur EXCEPT !.project_files = project_files]
                 /\ pc' = "bk_process"
                 /\ UNCHANGED <<summary, idx>>
    /\ UNCHANGED <<stats, dirs, projects, result, DownloadVars, Client>>

\* variant: the project is counted as processed although it failed
ProcessFiles_CountsProject ==
    /\ pc = "bk_process"
    /\ summary' = [summary EXCEPT !.projects =
                      Append(@, [cur.info EXCEPT !.status = StatusProcessFailed])]
    /\ log' = Append(log, Event("process_files_structure", idx, FALSE))
    /\ stats' = Bump("projects_processed")
    /\ pc' = "bk_sleep"
    /\ UNCHANGED <<dirs, projects, idx, cur, result, DownloadVars, Client>>

\* lines 353-369: self.process_files_structure is looked up on a class that
\* defines no such method, so the lookup raises AttributeError and the
\* handler of line 365 records it; lines 358-363 never run
ProcessFiles ==
    /\ pc = "bk_process"
    /\ "process_files_structure" \notin ClientMethods
    /\ summary' = [summary EXCEPT !.projects =
                      Append(@, [cur.info EXCEPT !.status = StatusProcessFailed])]
    /\ log' = Append(log, Event("process_files_structure", idx, FALSE))
    /\ pc' = "bk_sleep"
    /\ UNCHANGED <<stats, dirs, projects, idx, cur, result, DownloadVars, Client>>

\* line 372: time.sleep(0.5), then the next turn of the loop
Sleep ==
    /\ pc = "bk_sleep"
    /\ log' = Append(log, Event("sleep", idx, TRUE))
    /\ idx' = idx + 1
    /\ pc' = "bk_loop"
    /\ UNCHANGED <<stats, dirs, summary, projects, cur, result, DownloadVars,
                   Client>>

BackupPcs == {"bk_get_projects", "bk_loop", "bk_mkdir", "bk_get_files",
              "bk_process", "bk_sleep"}

DownloadPcs == {"dl_mkdir", "dl_check", "dl_request", "dl_open", "dl_stream"}

\* KeyboardInterrupt: not an Exception, so no handler of the client runs
Interrupt ==
    /\ pc \in DownloadPcs \cup BackupPcs
    /\ pc' = "interrupted"
    /\ result' = [op |-> IF pc \in DownloadPcs THEN "download_file"
                         ELSE "backup_all_projects",
                  outcome |-> "interrupted",
                  path |-> IF pc \in DownloadPcs THEN dl.path ELSE << >>,
                  size |-> 0]
    /\ interrupted' = IF pc \in DownloadPcs
                      THEN interrupted \cup {dl.path}
                      ELSE interrupted
    /\ UNCHANGED <<stats, disk, dirs, dl, calls, made, log, BackupVars, Helper>>

Next ==
    \/ NewClient
    \/ \E p \in DestPaths : DownloadFile(p)
    \/ DownloadMkdir
    \/ DownloadCheck
    \/ DownloadRequest
    \/ DownloadOpen
    \/ DownloadChunk
    \/ BackupAllProjects
    \/ GetProjects
    \/ ProjectLoop
    \/ CreateProjectDirectory
    \/ GetProjectFiles
    \/ ProcessFiles
    \/ Sleep
    \/ Interrupt

Spec == Init /\ [][Next]_vars

(***************************************************************************)
(* flatten: the statements of lines 261-277.  They stand behind the        *)
(* returns of download_file, where nothing can run them; the operator      *)
(* gives what they compute for a list files_data.                          *)
(***************************************************************************)
\* depth of folders and length of a list of children in the trees tried
MaxDepth == 1
MaxWidth == 2

RECURSIVE process_item(_), process_items(_)

\* lines 263-272
process_item(item) ==
    IF "type" \in DOMAIN item /\ item.type = "file"
    THEN <<item>>
    ELSE IF /\ "type" \in DOMAIN item
            /\ item.type = "folder"
            /\ "children" \in DOMAIN item
    THEN process_items(item.children)
    ELSE IF "files" \in DOMAIN item
    THEN process_items(item.files)
    ELSE << >>

\* the loops of lines 267, 271 and 274
process_items(items) ==
    IF items = << >> THEN << >>
    ELSE process_item(Head(items)) \o process_items(Tail(items))

\* lines 261-277
flatten(files_data) == process_items(files_data)

\* the nodes the file listing can hold: files, folders with or without
\* children, and objects that only expose a files field
SeqsUpTo(S, n) == UNION {[1..k -> S] : k \in 0..n}

RECURSIVE Nodes(_)
Nodes(depth) ==
    IF depth = 0
    THEN {File("fa", <<"a">>), File("fb", <<"b">>),
          [type |-> "folder", name |-> NameSub]}
    ELSE Nodes(depth - 1)
         \cup {Folder(NameSub, ch) : ch \in SeqsUpTo(Nodes(depth - 1), MaxWidth)}
         \cup {[files |-> ch] : ch \in SeqsUpTo(Nodes(depth - 1), MaxWidth)}

Trees == SeqsUpTo(Nodes(MaxDepth), MaxWidth)

FlattenStart == "flatten"
FlattenDone == "flattened"

Flatten ==
    /\ pc = FlattenStart
    /\ ret' = flatten(arg)
    /\ pc' = FlattenDone
    /\ UNCHANGED <<stats, disk, dirs, dl, summary, projects, idx, cur, result,
                   calls, made, log, interrupted, arg>>

InitFlatten ==
    /\ pc = FlattenStart
    /\ arg \in Trees
    /\ ret = << >>
    /\ stats = InitStats
    /\ disk = [p \in DestPaths |-> NoFile]
    /\ dirs = {<< >>}
    /\ dl = NoDl
    /\ result = NoResult
    /\ calls = 0
    /\ made = 0
    /\ summary = NoSummary
    /\ projects = << >>
    /\ idx = 0
    /\ cur = NoCur
    /\ log = << >>
    /\ interrupted = {}

NextFlatten == Flatten

SpecFlatten == InitFlatten /\ [][NextFlatten]_vars

(***************************************************************************)
(* sanitize_filename on its own: every name of the sets below is handed    *)
(* to it once.                                                             *)
(***************************************************************************)
\* length of the short names tried, and how far around the limit the
\* lengths of the long ones go
MaxShortLen == 2
MaxOver == 2

Alphabet == IllegalChars \cup StripChars \cup {"a", "_"}

ShortNames == UNION {[1..k -> Alphabet] : k \in 0..MaxShortLen}

Rep(c, n) == [i \in 1..n |-> c]

NearLimit == (MaxNameLen - MaxOver)..(MaxNameLen + MaxOver)

\* an optional illegal character, a stem, and either nothing or a dot
\* followed by an extension
LongNames ==
    {lead \o Rep("a", n) \o tail :
        lead \in {<< >>, <<"?">>},
        n \in (1..MaxOver) \cup NearLimit,
        tail \in {<< >>} \cup {<<".">> \o Rep("b", m) :
                                 m \in (1..MaxOver) \cup NearLimit}}

Names == ShortNames \cup LongNames

SanitizeStart == "sanitize"
SanitizeDone == "sanitized"

Sanitize ==
    /\ pc = SanitizeStart
    /\ ret' = sanitize_filename(arg)
    /\ pc' = SanitizeDone
    /\ UNCHANGED <<stats, disk, dirs, dl, summary, projects, idx, cur, result,
                   calls, made, log, interrupted, arg>>

InitSanitize ==
    /\ pc = SanitizeStart
    /\ arg \in Names
    /\ ret = << >>
    /\ stats = InitStats
    /\ disk = [p \in DestPaths |-> NoFile]
    /\ dirs = {<< >>}
    /\ dl = NoDl
    /\ result = NoResult
    /\ calls = 0
    /\ made = 0
    /\ summary = NoSummary
    /\ projects = << >>
    /\ idx = 0
    /\ cur = NoCur
    /\ log = << >>
    /\ interrupted = {}

NextSanitize == Sanitize

SpecSanitize == InitSanitize /\ [][NextSanitize]_vars

(***************************************************************************)
(* main: one run of the script.  arg holds what the run finds (the key     *)
(* file, the backup directory, the answer to the prompt), ret the exit     *)
(* status once the process has ended.  No client exists before line 530,   *)
(* so stats is the empty mapping until then.                               *)
(***************************************************************************)
KeyFiles == {"missing", "empty", "unreadable", "ok"}
BackupDirs == {"absent", "empty", "nonempty"}
Answers == {"y", "n"}

MainInputs == [key_file : KeyFiles, backup_dir : BackupDirs, answer : Answers]

\* sys.exit(code), a return from main, or an exception nothing catches
Exit(code) ==
    /\ pc' = "exited"
    /\ ret' = code

\* load_api_key (lines 460-491): the token, or the exception it raises
load_api_key(key_file) ==
    CASE key_file = "missing" -> "FileNotFoundError"
      [] key_file = "empty" -> "ValueError"
      [] key_file = "unreadable" -> "PermissionError"
      [] OTHER -> "token"

\* lines 509-513; an exception other than the two named leaves main
MainLoadKey ==
    /\ pc = "main_load_key"
    /\ IF load_api_key(arg.key_file) = "token"
       THEN pc' = "main_confirm" /\ UNCHANGED ret
       ELSE Exit(1)
    /\ UNCHANGED <<stats, disk, dirs, dl, summary, projects, idx, cur, result,
                   calls, made, log, interrupted, arg>>

\* lines 520-527
MainConfirm ==
    /\ pc = "main_confirm"
    /\ IF arg.backup_dir = "nonempty" /\ arg.answer # "y"
       THEN Exit(0)
       ELSE pc' = "main_client" /\ UNCHANGED ret
    /\ UNCHANGED <<stats, disk, dirs, dl, summary, projects, idx, cur, result,
                   calls, made, log, interrupted, arg>>

\* line 530, with lines 39-59: the constructor makes the backup directory
\* outside any try
MainCreateClient ==
    /\ pc = "main_client"
    /\ \/ /\ dirs' = dirs \cup {<< >>}
          /\ stats' = InitStats
          /\ pc' = "idle"
          /\ UNCHANGED ret
       \/ /\ << >> \notin dirs
          /\ Exit(1)
          /\ UNCHANGED <<dirs, stats>>
    /\ UNCHANGED <<disk, dl, summary, projects, idx, cur, result, calls, made,
                   log, interrupted, arg>>

\* line 534: the one call of the run
MainBackup ==
    /\ made = 0
    /\ BackupAllProjects

\* variant: a project recorded with an error makes the run exit with 1
MainFinish_FailsOnErrors ==
    /\ pc = "idle"
    /\ result.op = "backup_all_projects"
    /\ result.outcome = "returned"
    /\ Exit(IF \E i \in 1..Len(summary.projects) :
                   summary.projects[i].status \in ErrorStatuses
            THEN 1 ELSE 0)
    /\ UNCHANGED <<stats, disk, dirs, dl, summary, projects, idx, cur, result,
                   calls, made, log, interrupted, arg>>

\* lines 536-542: the summary is shown and the log is saved (a failure to
\* save is caught at line 442), then main returns
MainFinish ==
    /\ pc = "idle"
    /\ result.op = "backup_all_projects"
    /\ result.outcome = "returned"
    /\ Exit(0)
    /\ UNCHANGED <<stats, disk, dirs, dl, summary, projects, idx, cur, result,
                   calls, made, log, interrupted, arg>>

\* lines 545-547: the handler prints and main returns
MainInterrupted ==
    /\ pc = "interrupted"
    /\ Exit(0)
    /\ UNCHANGED <<stats, disk, dirs, dl, summary, projects, idx, cur, result,
                   calls, made, log, interrupted, arg>>

\* lines 548-552
MainUnexpected ==
    /\ pc = "raised"
    /\ Exit(1)
    /\ UNCHANGED <<stats, disk, dirs, dl, summary, projects, idx, cur, result,
                   calls, made, log, interrupted, arg>>

InitMain ==
    /\ pc = "main_load_key"
    /\ arg \in MainInputs
    /\ ret = << >>
    /\ stats = EmptyDict
    /\ disk = [p \in DestPaths |-> NoFile]
    /\ dirs = IF arg.backup_dir = "absent" THEN {} ELSE {<< >>}
    /\ dl = NoDl
    /\ result = NoResult
    /\ calls = 0
    /\ made = 0
    /\ summary = NoSummary
    /\ projects = << >>
    /\ idx = 0
    /\ cur = NoCur
    /\ log = << >>
    /\ interrupted = {}

NextMain ==
    \/ MainLoadKey
    \/ MainConfirm
    \/ MainCreateClient
    \/ MainBackup
    \/ GetProjects
    \/ ProjectLoop
    \/ CreateProjectDirectory
    \/ GetProjectFiles
    \/ ProcessFiles
    \/ Sleep
    \/ Interrupt
    \/ MainFinish
    \/ MainInterrupted
    \/ MainUnexpected

SpecMain == InitMain /\ [][NextMain]_vars

(***************************************************************************)
(* Properties                                                              *)
(***************************************************************************)
Last(s) == s[Len(s)]

LogHas(ev, i, ok) == \E k \in 1..Len(log) : log[k] = Event(ev, i, ok)

\* no request of the call failed and no directory creation failed
AllAnswered ==
    \A k \in 1..Len(log) :
        log[k].ev \in {"get_projects", "get_files", "download", "mkdir"} => log[k].ok

BackupReturned ==
    /\ pc = "idle"
    /\ result.op = "backup_all_projects"
    /\ result.outcome = "returned"

DownloadEnded(outcome) ==
    /\ pc = "idle"
    /\ result.op = "download_file"
    /\ result.outcome = outcome

Complete(p) == disk[p].exists /\ disk[p].data = RemoteContent(p)

Statuses == [i \in 1..Len(summary.projects) |-> summary.projects[i].status]

\* C1: a first run over an empty backup directory, with the API listing the
\* project of three files and the project of none and no request failing,
\* ends with files_found = 3, files_downloaded = 3, files_skipped = 0,
\* download_errors = 0, the statuses completed and no files, and the three
\* files on disk with their remote content.
C1_EndToEnd ==
    (BackupReturned /\ calls = 1 /\ projects = ReferenceListing /\ AllAnswered)
    => /\ stats.files_found = 3
       /\ stats.files_downloaded = 3
       /\ stats.files_skipped = 0
       /\ stats.download_errors = 0
       /\ Statuses = <<StatusCompleted, StatusNoFiles>>
       /\ \A p \in ReferencePaths : Complete(p)

C3_ProjectIsolation ==
    (pc = "bk_loop" \/ BackupReturned)
    => /\ BackupReturned => Len(summary.projects) = Len(projects)
       /\ pc = "bk_loop" => Len(summary.projects) = idx - 1
       /\ \A i \in 1..Len(summary.projects) :
            LET info == summary.projects[i] IN
            /\ i <= Len(projects)
            /\ info.id = projects[i].id
            /\ info.name = projects[i].name
            /\ info.status \in {StatusCompleted, StatusNoFiles} \cup ErrorStatuses
            /\ projects[i].id = "" => info.status = StatusNoId
            /\ LogHas("mkdir", i, FALSE) => info.status = StatusDirFailed
            /\ LogHas("process_files_structure", i, FALSE)
                  => info.status = StatusProcessFailed

\* a run that returned after a failed directory creation for the first
\* project and failed file processing for the second
C3_Witness ==
    /\ BackupReturned
    /\ Statuses = <<StatusDirFailed, StatusProcessFailed>>

\* C4: files_downloaded + files_skipped + download_errors <= files_found in
\* every state.
C4_StatsInvariant ==
    stats.files_downloaded + stats.files_skipped + stats.download_errors
        <= stats.files_found

\* the step of download_file that finds the destination present with content
SkipStep ==
    /\ pc = "dl_check"
    /\ ExistsNonEmpty(dl.path)
    /\ pc' \notin {"dl_check", "interrupted"}

\* the step of download_file that issues the GET of the file
RequestStep ==
    /\ pc = "dl_request"
    /\ pc' \notin {"dl_request", "interrupted"}

\* a destination with content is skipped: no request before or in the step,
\* files_skipped + 1 and no other counter touched, the disk left alone
SkipIsClean ==
    SkipStep => /\ pc' = "idle"
                /\ result'.outcome = "skipped"
                /\ stats' = [stats EXCEPT !.files_skipped = @ + 1]
                /\ disk' = disk
                /\ log = << >>
                /\ log' = << >>

\* C5 as stated: a destination with content is skipped cleanly, and no
\* request is issued by a call whose predecessor returned True for the same
\* destination.
C5_SkipIfExists_AsStated ==
    [][SkipIsClean /\ (RequestStep => dl.again = "no")]_vars

\* C5: a destination with content is skipped cleanly, and no request is
\* issued by a call whose predecessor returned True for the same destination
\* and left a file with content there.
C5_SkipIfExists ==
    [][SkipIsClean /\ (RequestStep => dl.again # "content")]_vars

\* the second of two calls for one destination was skipped without a request
C5_Witness ==
    /\ DownloadEnded("skipped")
    /\ dl.again = "content"
    /\ log = << >>

\* C6: after download_file has ended with the failed outcome, no file exists
\* at the destination.
C6_NoPartialArtifacts ==
    DownloadEnded("failed") => ~disk[result.path].exists

\* C7: a step of download_file in which a request, the stream, the creation
\* of a directory, the opening of the file or a write fails ends the call
\* with the failed outcome and download_errors + 1; nothing is raised and the
\* client is ready for the next call.
C7_FailureIsolated ==
    [][(/\ pc \in DownloadPcs
        /\ Len(log') > Len(log)
        /\ ~Last(log').ok)
       => /\ pc' = "idle"
          /\ result'.op = "download_file"
          /\ result'.outcome = "failed"
          /\ stats' = [stats EXCEPT !.download_errors = @ + 1]]_vars

\* a client that has had a failed download and then completed another one
C7_Witness ==
    /\ DownloadEnded("downloaded")
    /\ stats.download_errors >= 1

\* C8: once a run has been interrupted, a later call of download_file skips
\* every destination that holds the complete, non-empty remote content, and
\* every destination it skips holds the complete remote content.
C8_ResumableAfterInterrupt ==
    [][(/\ pc = "dl_check"
        /\ pc' \notin {"dl_check", "interrupted"}
        /\ interrupted # {})
       => /\ (Complete(dl.path) /\ RemoteContent(dl.path) # << >>)
                => result'.outcome = "skipped"
          /\ (pc' = "idle" /\ result'.outcome = "skipped")
                => Complete(dl.path)]_vars

\* C9: a run of a new client over a directory that holds the three files of
\* the reference project completely, with the API answering as in the first
\* run, ends with files_downloaded = 0 and files_skipped = files_found = 3,
\* the files being as they were.
C9_RerunIdempotent ==
    (/\ BackupReturned
     /\ made = 1
     /\ projects = ReferenceListing
     /\ AllAnswered
     /\ \A p \in ReferencePaths : Complete(p))
    => /\ stats.files_downloaded = 0
       /\ stats.files_found = 3
       /\ stats.files_skipped = stats.files_found

\* C10: when the file listing of a project comes back empty, also because
\* the request failed, the project is recorded with status no files and an
\* empty files entry, nothing but the listing was requested for it, nothing
\* was written, and the loop goes on with the next project.
C10_NoFiles ==
    [][(/\ pc = "bk_get_files"
        /\ pc' \notin {"bk_get_files", "interrupted"}
        /\ (~Last(log').ok \/ FilesOf(cur.info.id) = << >>))
       => /\ pc' = "bk_loop"
          /\ idx' = idx + 1
          /\ summary'.projects =
                Append(summary.projects,
                       [cur.info EXCEPT !.status = StatusNoFiles])
          /\ Last(summary'.projects).files = << >>
          /\ \A k \in 1..Len(log') :
                log'[k].i = idx => log'[k].ev = "get_files"
          /\ disk' = disk
          /\ stats' = stats]_vars

\* a run that returned after a failed file listing for the first project and
\* went on to the second
C10_Witness ==
    /\ BackupReturned
    /\ Len(summary.projects) = 2
    /\ summary.projects[1].status = StatusNoFiles
    /\ LogHas("get_files", 1, FALSE)

\* C11: backup_all_projects never raises, whatever the API answers: it
\* always returns its summary.
C11_NeverRaises ==
    ~(pc = "raised" /\ result.op = "backup_all_projects")

\* what the claim expects of flattening: one record per node of type file,
\* depth first with siblings in their listed order, each with the names of
\* the folders above it followed by its own name
RECURSIVE ExpectedPaths(_, _)
ExpectedPaths(nodes, above) ==
    IF nodes = << >> THEN << >>
    ELSE LET node == Head(nodes)
             here ==
                 IF "type" \in DOMAIN node /\ node.type = "file"
                 THEN <<Append(above, node.name)>>
                 ELSE IF "children" \in DOMAIN node
                 THEN ExpectedPaths(node.children, Append(above, node.name))
                 ELSE IF "files" \in DOMAIN node
                 THEN ExpectedPaths(node.files, above)
                 ELSE << >>
         IN here \o ExpectedPaths(Tail(nodes), above)

\* the relative path a flattened record carries: its relativePath, or only
\* its name when it has none
PathOf(record) ==
    IF "relativePath" \in DOMAIN record THEN record.relativePath
    ELSE <<record.name>>

\* C12: flattening yields one record per leaf file, depth first in sibling
\* order, each carrying the path made of its folders' names and its own.
C12_Flatten ==
    pc = FlattenDone
    => /\ Len(ret) = Len(ExpectedPaths(arg, << >>))
       /\ \A k \in 1..Len(ret) : PathOf(ret[k]) = ExpectedPaths(arg, << >>)[k]

\* C13: whatever the name, the sanitized name holds none of the illegal
\* characters and is not empty.
C13_SanitizeLegal ==
    pc = SanitizeDone
    => /\ ret # << >>
       /\ \A i \in 1..Len(ret) : ret[i] \notin IllegalChars

C13_Witness ==
    /\ pc = SanitizeDone
    /\ \E i \in 1..Len(arg) : arg[i] \in IllegalChars
    /\ Len(ret) = Len(arg)

\* the extension of a name, as the code splits it: of the name with the
\* illegal characters replaced and the dots and spaces at its ends removed
ExtensionOf(name) == SplitExt(Strip(ReSub(name)))[2]

EndsWith(s, t) ==
    /\ Len(t) <= Len(s)
    /\ SubSeq(s, Len(s) - Len(t) + 1, Len(s)) = t

\* C14: a name longer than the limit is cut to at most 255 characters and
\* still ends with its extension, whatever the lengths of stem and extension.
C14_LengthBound ==
    (pc = SanitizeDone /\ Len(arg) > MaxNameLen)
    => /\ Len(ret) <= MaxNameLen
       /\ EndsWith(ret, ExtensionOf(arg))

\* the project recorded at place i of the summary has an id and its
\* directory was made
HasDirectory(i) ==
    /\ summary.projects[i].id # ""
    /\ summary.projects[i].status # StatusDirFailed

\* C15: after a run, two listed projects with distinct ids have distinct
\* subdirectories of the backup root, also when their names sanitize to the
\* same string.
C15_OwnSubdirectory ==
    BackupReturned
    => \A i, j \in 1..Len(summary.projects) :
         ( /\ HasDirectory(i)
           /\ HasDirectory(j)
           /\ summary.projects[i].id # summary.projects[j].id )
         => create_project_directory(summary.projects[i].name)
              # create_project_directory(summary.projects[j].name)

\* the step in which the request for the project listing fails
ListingFails ==
    /\ pc = "bk_get_projects"
    /\ log' = <<Event("get_projects", 0, FALSE)>>

EndsEmpty ==
    /\ projects' = << >>
    /\ pc' = "idle"
    /\ result'.op = "backup_all_projects"
    /\ result'.outcome = "returned"
    /\ summary'.projects = << >>
    /\ dirs' = dirs
    /\ disk' = disk
    /\ stats' = stats

\* C16: when the request for the project listing fails, get_projects gives
\* the empty list and backup_all_projects returns at once: nothing is
\* recorded in the summary, no directory or file is made, no other request
\* is sent and nothing is raised.
C16_ListingFailure == [][ListingFails => EndsEmpty]_vars

C16_Witness ==
    /\ BackupReturned
    /\ log = <<Event("get_projects", 0, FALSE)>>
    /\ summary.projects = << >>

\* C18: when the loop of backup_all_projects turns to the next project, the
\* pause has been made after the project before it, whatever its status.
C18_PauseBetweenProjects ==
    (pc = "bk_loop" /\ 1 < idx /\ idx <= Len(projects))
    => LogHas("sleep", idx - 1, TRUE)

Counters == {"files_downloaded", "files_skipped", "download_errors"}

\* what the returning step of download_file does to the statistics
CountsOnce ==
    /\ \E c \in Counters :
         /\ stats'[c] = stats[c] + 1
         /\ \A o \in Counters \ {c} : stats'[o] = stats[o]
    /\ stats'.files_found = stats.files_found
    /\ stats'.projects_processed = stats.projects_processed
    /\ stats'.total_bytes_downloaded =
          stats.total_bytes_downloaded
          + IF stats'.files_downloaded = stats.files_downloaded
            THEN 0
            ELSE Len(disk'[dl.path].data)

DownloadStep ==
    pc \in DownloadPcs => IF pc' = "idle" THEN CountsOnce ELSE stats' = stats

\* C19: a call of download_file that returns adds 1 to exactly one of
\* files_downloaded, files_skipped and download_errors and leaves the other
\* two, files_found and projects_processed as they were; the byte total
\* grows only with files_downloaded, by the size of the file written; no
\* step before the return touches the statistics.
C19_OneCounter == [][DownloadStep]_vars

C19_Witness ==
    /\ DownloadEnded("downloaded")
    /\ stats.files_downloaded = 1
    /\ stats.total_bytes_downloaded = Len(RemoteContent(PathA))
    /\ result.path = PathA

NumCompleted ==
    Cardinality({i \in 1..Len(summary.projects) :
                    summary.projects[i].status = StatusCompleted})

\* C20: at every project boundary of backup_all_projects and when it has
\* returned, projects_processed is the number of projects recorded as
\* completed, and it is at most the number of projects listed.
C20_ProcessedCount ==
    (pc = "bk_loop" \/ BackupReturned)
    => /\ stats.projects_processed = NumCompleted
       /\ stats.projects_processed <= Len(projects)

C20_Witness ==
    /\ BackupReturned
    /\ Statuses = <<StatusProcessFailed, StatusNoFiles>>

\* C17: a run whose key file is missing or empty exits with a status other
\* than 0 before a client exists and before any request; a run whose
\* backup returned exits with 0, also when projects are recorded with
\* errors.
C17_ExitBehaviour ==
    pc = "exited"
    => /\ arg.key_file \in {"missing", "empty"}
          => (ret # 0 /\ stats = EmptyDict /\ log = << >> /\ calls = 0)
       /\ (result.op = "backup_all_projects" /\ result.outcome = "returned")
          => ret = 0

C17_Witness ==
    /\ pc = "exited"
    /\ ret = 0
    /\ \E i \in 1..Len(summary.projects) :
         summary.projects[i].status \in ErrorStatuses

====
